---- MODULE Spec2Model ----
(***************************************************************************)
(* A model of app.py: the /generate_cv handler that turns a JSON resume    *)
(* record into a word-processing document, and its helpers add_line and    *)
(* validate_color.                                                         *)
(*                                                                         *)
(* Encoding of the Python values                                           *)
(*  - a dict is a record; a key that is not in the dict holds Absent, so   *)
(*    d.get(k, default) is Get(d[k], default);                             *)
(*  - a value the code tests with isinstance is a tagged record            *)
(*    [t, s, items] with t in {"absent", "str", "list"};                   *)
(*  - a text handed to the document library is a sequence of pieces: the   *)
(*    values and the literals an f-string or a join concatenates, in       *)
(*    order.  The text contains a value iff the value is one of its pieces;*)
(*  - a colour string is a sequence of one-character strings;              *)
(*  - a block of the document is a record [kind, style, text, cols, sec]: *)
(*    sec names the part of the record the block was emitted for (a label  *)
(*    of the model, not a field of the document).  Fonts, sizes and        *)
(*    spacings are attributes set on a block after it exists; they decide  *)
(*    no branch and are left out.                                          *)
(*                                                                         *)
(* The calls into the document library that raise                          *)
(*  - doc.add_paragraph(text) with a text that holds a control character:  *)
(*    ValueError, from lxml;                                               *)
(*  - p.runs[0] after doc.add_paragraph(""): IndexError, no run was added; *)
(*  - add_line, always: OxmlElement('v:rect') and qn('v:...') look the     *)
(*    prefix v up in the library's namespace map, which has no such entry  *)
(*    (KeyError, line 23), and qn('color2') unpacks 'color2'.split(':')    *)
(*    into two names (ValueError, line 31).  Either way the except clauses *)
(*    answer 400;                                                          *)
(*  - table.paragraphs (line 258): a Table has cells, rows and columns but *)
(*    no paragraphs attribute: AttributeError.                             *)
(* doc.save and send_file are taken to succeed.                            *)
(***************************************************************************)
EXTENDS Integers, Sequences, FiniteSets, TLC

VARIABLES
    is_json,    \* request.is_json
    data,       \* request.json, the input record
    pc,         \* position of the handler
    doc,        \* the document body: sequence of blocks
    geometry,   \* TRUE once the page size and margins are set
    exc,        \* the exception raised inside the try block, or "none"
    status,     \* HTTP status of the response, 0 while there is none
    sent,       \* the document returned with the response (<<>> if none)
    saved,      \* TRUE once doc.save has written the file
    sep_i,      \* the separator pass: loop index i
    sep_n,      \* the separator pass: the bound range() was called with
    color,      \* validate_color: its argument
    validated   \* validate_color: its result

vars == <<is_json, data, pc, doc, geometry, exc, status, sent, saved,
          sep_i, sep_n, color, validated>>

-----------------------------------------------------------------------------
(* Bounds of the model *)

MaxItems == 2       \* longest list of a list-valued section
MaxSkills == 11     \* longest skills list
MaxColorLen == 4    \* longest colour string drawn exhaustively

-----------------------------------------------------------------------------
(* Python values *)

NA == "N/A"
Absent == "<absent>"
Ctl == "<U+0001>"       \* a string holding a control character

Get(v, default) == IF v = Absent THEN default ELSE v

Range(q) == {q[i] : i \in 1..Len(q)}

RECURSIVE Flatten(_)
Flatten(qq) == IF qq = <<>> THEN <<>> ELSE Head(qq) \o Flatten(Tail(qq))

\* q[a:b] of Python for 0 <= a, with b clipped to the length
Slice(q, a, b) ==
    LET hi == IF b < Len(q) THEN b ELSE Len(q)
    IN IF a >= hi THEN <<>> ELSE SubSeq(q, a + 1, hi)

StrVal(s) == [t |-> "str", s |-> s, items |-> <<>>]
ListVal(q) == [t |-> "list", s |-> "", items |-> q]
NoVal == [t |-> "absent", s |-> "", items |-> <<>>]

\* bool(value) of a tagged value
Truthy(v) ==
    CASE v.t = "str" -> v.s # ""
      [] v.t = "list" -> v.items # <<>>
      [] OTHER -> FALSE

\* str.strip() applied to one value: whitespace-only values become empty
IsBlank(s) == s \in {"", " ", "  "}

-----------------------------------------------------------------------------
(* The document library *)

Para(style, text, sec) ==
    [kind |-> "p", style |-> style, text |-> text, cols |-> <<>>, sec |-> sec]

Table(cols, sec) ==
    [kind |-> "tbl", style |-> "", text |-> <<>>, cols |-> cols, sec |-> sec]

\* a statement that raises e without adding a block
Raise(e, sec) ==
    [kind |-> "raise", style |-> e, text |-> <<>>, cols |-> <<>>, sec |-> sec]

\* add_line: doc.add_paragraph() and paragraph.add_run() add an empty
\* paragraph, then OxmlElement('v:rect') raises (see the head of the module)
add_line(sec) ==
    [kind |-> "line", style |-> "Normal", text |-> <<>>, cols |-> <<>>, sec |-> sec]

\* the text is the empty string: add_paragraph(text) then adds no run
IsEmptyText(text) == \A i \in 1..Len(text) : text[i] = ""

\* lxml refuses a text holding a NULL byte or a control character
XmlCompatible(text) == \A i \in 1..Len(text) : text[i] # Ctl

\* doc.paragraphs: the paragraphs of the body; a table is not one of them,
\* and neither are the paragraphs inside its cells
Paragraphs(d) == SelectSeq(d, LAMBDA b : b.kind = "p")

\* What one call does: "ok", or the exception it raises.  Every paragraph
\* the handler adds with a text is followed by p.runs[0], which raises
\* IndexError when the text was empty; a cell text is never blank (Skills
\* filters them).
Outcome(b) ==
    CASE b.kind = "p" ->
            IF ~XmlCompatible(b.text) THEN "ValueError"
            ELSE IF IsEmptyText(b.text) THEN "IndexError"
            ELSE "ok"
      [] b.kind = "tbl" ->
            IF \E c \in 1..Len(b.cols) : ~XmlCompatible(b.cols[c])
            THEN "ValueError" ELSE "ok"
      [] b.kind = "line" -> "KeyError"
      [] OTHER -> b.style

\* The cells filled before the first text lxml refuses
CutCols(cols) ==
    [c \in 1..Len(cols) |->
        IF \E k \in 1..(c - 1) : ~XmlCompatible(cols[k]) THEN <<>>
        ELSE IF XmlCompatible(cols[c]) THEN cols[c]
        ELSE LET bad == CHOOSE i \in 1..Len(cols[c]) :
                            /\ cols[c][i] = Ctl
                            /\ \A j \in 1..(i - 1) : cols[c][j] # Ctl
             IN SubSeq(cols[c], 1, bad - 1)]

\* What the failing call leaves in the body
Failed(b, o) ==
    CASE b.kind = "p" /\ o = "IndexError" -> <<b>>
      [] b.kind = "p" /\ o # "IndexError" -> <<Para("Normal", <<>>, b.sec)>>
      [] b.kind = "tbl" -> <<Table(CutCols(b.cols), b.sec)>>
      [] b.kind = "line" -> <<Para("Normal", <<>>, b.sec)>>
      [] OTHER -> <<>>

\* The calls of ops in order, up to the first that raises
RECURSIVE Emit(_, _)
Emit(d, ops) ==
    IF ops = <<>> THEN [doc |-> d, exc |-> "none"]
    ELSE LET b == Head(ops)
             o == Outcome(b)
         IN IF o = "ok" THEN Emit(Append(d, b), Tail(ops))
            ELSE [doc |-> d \o Failed(b, o), exc |-> o]

-----------------------------------------------------------------------------
(* validate_color *)

Black == <<"#", "0", "0", "0", "0", "0", "0">>

HexDigit == {"0", "1", "2", "3", "4", "5", "6", "7", "8", "9",
             "a", "b", "c", "d", "e", "f", "A", "B", "C", "D", "E", "F"}

Whitespace == {" "}

RECURSIVE LStrip(_, _)
LStrip(q, chars) ==
    IF q # <<>> /\ Head(q) \in chars THEN LStrip(Tail(q), chars) ELSE q

RECURSIVE RStrip(_, _)
RStrip(q, chars) ==
    IF q # <<>> /\ q[Len(q)] \in chars
    THEN RStrip(SubSeq(q, 1, Len(q) - 1), chars) ELSE q

Strip(q, chars) == LStrip(RStrip(q, chars), chars)

\* int(q, 16) returns (TRUE) or raises ValueError (FALSE): surrounding
\* whitespace, one sign, an optional 0x prefix with one underscore after it,
\* then hexadecimal digits with single underscores between them.
IntBase16Parses(q) ==
    LET a == Strip(q, Whitespace)
        b == IF a # <<>> /\ Head(a) \in {"+", "-"} THEN Tail(a) ELSE a
        r == IF Len(b) >= 2 /\ b[1] = "0" /\ b[2] \in {"x", "X"}
             THEN SubSeq(b, 3, Len(b)) ELSE b
        c == IF r # b /\ r # <<>> /\ Head(r) = "_" THEN Tail(r) ELSE r
    IN /\ c # <<>>
       /\ c[1] # "_"
       /\ c[Len(c)] # "_"
       /\ \A i \in 1..Len(c) : c[i] \in HexDigit \cup {"_"}
       /\ \A i \in 1..(Len(c) - 1) : ~(c[i] = "_" /\ c[i + 1] = "_")

\* ''.join(c * 2 for c in color)
Doubled(q) == [i \in 1..(2 * Len(q)) |-> q[(i + 1) \div 2]]

ColorStr(q) == [t |-> "str", chars |-> q]
ColorNone == [t |-> "none", chars |-> <<>>]

validate_color(c) ==
    IF c.t # "str" THEN Black
    ELSE LET stripped == LStrip(Strip(c.chars, Whitespace), {"#"})
         IN IF stripped = <<>> THEN Black
            ELSE IF Len(stripped) \notin {3, 6} THEN Black
            ELSE IF ~IntBase16Parses(stripped) THEN Black
            ELSE IF Len(stripped) = 3 THEN <<"#">> \o Doubled(stripped)
            ELSE <<"#">> \o stripped

-----------------------------------------------------------------------------
(* generate_cv: what each part of the handler adds to the document *)

Sec(part, key, e, p) == [part |-> part, key |-> key, e |-> e, p |-> p]
Part(part) == Sec(part, "", 0, 0)

\* data.get(k, default) on the top-level record
DataGet(d, k, default) == IF k \in d.present THEN d[k] ELSE default

EmptyPersonal == [name |-> Absent]
EmptyLocation == [city |-> Absent, countryCode |-> Absent]
EmptyContact == [phone |-> Absent, email |-> Absent, website |-> Absent,
                 location |-> EmptyLocation]
EmptyOverview == [desired_role |-> Absent, tagline |-> Absent, subs |-> <<>>]
EmptyDetails == [plainText |-> NoVal, subs |-> <<>>]

Name(d) == Get(DataGet(d, "personalInformation", EmptyPersonal).name, NA)

NameOps(d) ==
    IF Name(d) # NA THEN <<Para("Heading 1", <<Name(d)>>, Part("name"))>>
    ELSE <<>>

\* ContactText with "or" for "and" in the test of the location
ContactText_EitherLocation(cd) ==
    (IF Get(cd.phone, NA) # NA THEN << <<cd.phone>> >> ELSE <<>>)
    \o (IF Get(cd.email, NA) # NA THEN << <<cd.email>> >> ELSE <<>>)
    \o (IF Get(cd.website, NA) # NA THEN << <<cd.website>> >> ELSE <<>>)
    \o (IF Get(cd.location.city, NA) # NA
           \/ Get(cd.location.countryCode, NA) # NA
        THEN << <<Get(cd.location.city, NA), ", ",
                  Get(cd.location.countryCode, NA)>> >>
        ELSE <<>>)

\* contact_text: the list of tokens, each a text
ContactText(cd) ==
    (IF Get(cd.phone, NA) # NA THEN << <<cd.phone>> >> ELSE <<>>)
    \o (IF Get(cd.email, NA) # NA THEN << <<cd.email>> >> ELSE <<>>)
    \o (IF Get(cd.website, NA) # NA THEN << <<cd.website>> >> ELSE <<>>)
    \o (IF Get(cd.location.city, NA) # NA
           /\ Get(cd.location.countryCode, NA) # NA
        THEN << <<cd.location.city, ", ", cd.location.countryCode>> >>
        ELSE <<>>)

\* sep.join(tokens)
RECURSIVE Join(_, _)
Join(tokens, sep) ==
    IF tokens = <<>> THEN <<>>
    ELSE IF Len(tokens) = 1 THEN tokens[1]
    ELSE tokens[1] \o <<sep>> \o Join(Tail(tokens), sep)

Contact(d) == ContactText(DataGet(d, "contactDetails", EmptyContact))

ContactOps(d) ==
    IF Contact(d) # <<>>
    THEN <<Para("Normal", Join(Contact(d), " | "), Part("contact"))>>
    ELSE <<>>

OverviewBlockOps(d) ==
    LET overview == DataGet(d, "overview", EmptyOverview)
    IN (IF Get(overview.desired_role, NA) # NA
        THEN <<Para("Normal", <<overview.desired_role>>, Part("desired_role"))>>
        ELSE <<>>)
       \o (IF Get(overview.tagline, NA) # NA
           THEN <<Para("Normal", <<overview.tagline>>, Part("tagline"))>>
           ELSE <<>>)

\* HeaderExists with "contact_text is not None" for "contact_text"
HeaderExists_ContactNotNone(d) == Name(d) # NA \/ Len(Contact(d)) >= 0

HeaderExists(d) == Name(d) # NA \/ Contact(d) # <<>>

HeaderLineOps(d) ==
    IF HeaderExists(d)
    THEN <<add_line(Part("header_line"))>>
    ELSE <<>>

\* value and isinstance(value, list) and value and value[0] != "N/A", for a
\* list of strings
ListPresent(v) ==
    Truthy(v) /\ v.t = "list" /\ v.items # <<>> /\ v.items[1] # NA

\* item.startswith(<bullet>) or item.startswith(''): every string starts with
\* the empty string, so every item takes the bullet style
ItemStyle(item) == "List Bullet"

OverviewSectionOps(d) ==
    LET subs == DataGet(d, "overview", EmptyOverview).subs
    IN Flatten([i \in 1..Len(subs) |->
        LET sec == Sec("overview", subs[i].k, 0, 0)
            value == subs[i].v
        IN IF subs[i].k \notin {"desired_role", "tagline"} /\ ListPresent(value)
           THEN <<Para("Heading 2", <<subs[i].k>>, sec)>>
                \o [j \in 1..Len(value.items) |->
                        Para(ItemStyle(value.items[j]), <<value.items[j]>>, sec)]
           ELSE <<>>])

RoleText(exp, pos) ==
    <<Get(pos.jobTitle, NA), " - ", Get(exp.organisation, NA), " | ",
      Get(exp.about_the_organisation, NA), ", ", Get(exp.location, NA), " (",
      Get(pos.startDate, NA), " -- ",   \* the en dash of the source
      IF Get(pos.endDate, NA) # NA THEN Get(pos.endDate, NA) ELSE "Present",
      ")">>

\* plain_text, 'N/A' when there are no details or no plainText in them
PlainTextOps(pos, sec) ==
    LET plain == pos.details.plainText
    IN IF plain.t = "absent" \/ (plain.t = "str" /\ plain.s = NA) THEN <<>>
       ELSE IF plain.t = "list"
       THEN [j \in 1..Len(plain.items) |-> Para("Normal", <<plain.items[j]>>, sec)]
       ELSE <<Para("Normal", <<plain.s>>, sec)>>

DetailOps(pos, e, p) ==
    LET subs == pos.details.subs
    IN Flatten([i \in 1..Len(subs) |->
        LET sec == Sec("details", subs[i].k, e, p)
            subvalue == subs[i].v
        IN IF subs[i].k # "plainText" /\ ListPresent(subvalue)
           THEN <<Para("Normal", <<subs[i].k>>, sec)>>
                \o [j \in 1..Len(subvalue.items) |->
                        Para("List Bullet", <<subvalue.items[j]>>, sec)]
           ELSE <<>>])

WorkExperienceOps(d) ==
    LET work == DataGet(d, "workExperience", <<>>)
    IN IF work = <<>> THEN <<>>
       ELSE <<Para("Heading 2", <<"Career Experience">>, Part("workExperience"))>>
            \o Flatten([e \in 1..Len(work) |->
                 Flatten([p \in 1..Len(work[e].position) |->
                    <<Para("Normal", RoleText(work[e], work[e].position[p]),
                           Sec("role", "", e, p))>>
                    \o PlainTextOps(work[e].position[p], Sec("plainText", "", e, p))
                    \o DetailOps(work[e].position[p], e, p)])])

EduText(edu) ==
    <<Get(edu.studyType, NA), " in ", Get(edu.area, NA), " - ",
      Get(edu.institution, NA), ", ", Get(edu.location, NA), " (",
      IF Get(edu.score, NA) # NA THEN Get(edu.score, NA) ELSE "", ")">>

EducationOps(d) ==
    LET education == DataGet(d, "education", <<>>)
    IN IF education = <<>> THEN <<>>
       ELSE <<Para("Heading 2", <<"Education">>, Part("education"))>>
            \o [i \in 1..Len(education) |->
                    Para("Normal", EduText(education[i]), Sec("education", "", i, 0))]

SkillsSplit1 == 5
SkillsSplit2 == 10

\* "\n".join(names).split("\n") for names that hold no line break: the
\* names again, except that the empty list comes back as one empty line
JoinSplitLines(names) == IF names = <<>> THEN <<"">> ELSE names

\* the texts one cell receives: text.strip() and text != "N/A"
CellTexts(skills, a, b) ==
    LET part == Slice(skills, a, b)
        names == [i \in 1..Len(part) |-> Get(part[i].name, NA)]
    IN SelectSeq(JoinSplitLines(names), LAMBDA text : ~IsBlank(text) /\ text # NA)

SkillsColumns(skills) ==
    <<CellTexts(skills, 0, SkillsSplit1),
      CellTexts(skills, SkillsSplit1, SkillsSplit2),
      CellTexts(skills, SkillsSplit2, Len(skills))>>

SkillsOps(d) ==
    LET skills == DataGet(d, "skills", <<>>)
    IN IF skills = <<>> THEN <<>>
       ELSE <<Para("Heading 2", <<"Key Skills & Expertise">>, Part("skills")),
              Table(SkillsColumns(skills), Part("skills")),
              Raise("AttributeError", Part("skills"))>>    \* table.paragraphs

GenericSections ==
    <<"associations", "publications", "projects", "volunteer", "interests",
      "patents", "awards", "certificates", "languages", "references">>

\* section.capitalize()
Capitalize(section) ==
    CASE section = "associations" -> "Associations"
      [] section = "publications" -> "Publications"
      [] section = "projects" -> "Projects"
      [] section = "volunteer" -> "Volunteer"
      [] section = "interests" -> "Interests"
      [] section = "patents" -> "Patents"
      [] section = "awards" -> "Awards"
      [] section = "certificates" -> "Certificates"
      [] section = "languages" -> "Languages"
      [] section = "references" -> "References"

StrItem(s) == [t |-> "str", s |-> s, name |-> Absent, summary |-> Absent]
DictItem(name, summary) == [t |-> "dict", s |-> "", name |-> name, summary |-> summary]

\* SectionIncluded testing every element of a list, not the first alone
SectionIncluded_AnyElement(v) ==
    /\ Truthy(v)
    /\ \/ v.t = "list"
          /\ \E j \in 1..Len(v.items) : ~(v.items[j].t = "str" /\ v.items[j].s = NA)
       \/ v.t = "str" /\ v.s # NA

\* section_data and (isinstance(section_data, list) and section_data and
\* section_data[0] != "N/A" or isinstance(section_data, str) and
\* section_data != "N/A")
SectionIncluded(v) ==
    /\ Truthy(v)
    /\ \/ v.t = "list" /\ v.items # <<>>
          /\ ~(v.items[1].t = "str" /\ v.items[1].s = NA)
       \/ v.t = "str" /\ v.s # NA

\* text.strip() of a text whose values carry no outer whitespace: blank
\* pieces at either end go, and a separator left at an end loses its
\* outer space
RECURSIVE StripText(_)
StripText(text) ==
    IF text = <<>> THEN <<>>
    ELSE IF IsBlank(Head(text)) THEN StripText(Tail(text))
    ELSE IF IsBlank(text[Len(text)]) THEN StripText(SubSeq(text, 1, Len(text) - 1))
    ELSE LET n == Len(text)
             left == IF text[1] = " - " THEN "- " ELSE text[1]
         IN IF n = 1 THEN <<IF text[1] = " - " THEN "-" ELSE text[1]>>
            ELSE <<left>> \o SubSeq(text, 2, n - 1)
                 \o <<IF text[n] = " - " THEN " -" ELSE text[n]>>

\* f"{item.get('name', 'N/A')} - {item.get('summary', '') if 'summary' in item else ''}"
DictItemText(item) == <<Get(item.name, NA), " - ", Get(item.summary, "")>>

ItemOps(item, sec) ==
    IF item.t = "dict"
    THEN IF StripText(DictItemText(item)) # <<NA, " - ">>
         THEN <<Para("Normal", DictItemText(item), sec)>>
         ELSE <<>>
    ELSE <<Para("List Bullet", <<item.s>>, sec)>>

SectionOps(section, v) ==
    LET sec == Part(section)
    IN IF SectionIncluded(v)
       THEN <<Para("Heading 2", <<Capitalize(section)>>, sec)>>
            \o (IF v.t = "list"
                THEN Flatten([j \in 1..Len(v.items) |-> ItemOps(v.items[j], sec)])
                ELSE <<Para("Normal", <<v.s>>, sec)>>)
       ELSE <<>>

OtherSectionsOps(d) ==
    Flatten([k \in 1..Len(GenericSections) |->
                SectionOps(GenericSections[k], d.sections[GenericSections[k]])])

\* range(len(doc.paragraphs) - 1): the number of iterations, 0 when the
\* argument is negative
SeparatorRange(d) ==
    IF Len(Paragraphs(d)) - 1 > 0 THEN Len(Paragraphs(d)) - 1 ELSE 0

-----------------------------------------------------------------------------
(* The requests the model receives *)

SeqsUpTo(S, n) == UNION {[1..k -> S] : k \in 0..n}

Required == {"personalInformation", "contactDetails", "overview",
             "workExperience", "education", "skills"}

NAContact == [phone |-> NA, email |-> NA, website |-> NA,
              location |-> [city |-> NA, countryCode |-> NA]]
NAOverview == [desired_role |-> NA, tagline |-> NA, subs |-> <<>>]
NoSections == [s \in Range(GenericSections) |-> NoVal]

Record(pi, cd, ov, we, ed, sk, secs) ==
    [kind |-> "dict", present |-> Required, personalInformation |-> pi,
     contactDetails |-> cd, overview |-> ov, workExperience |-> we,
     education |-> ed, skills |-> sk, sections |-> secs]

Position(title, endDate, plain, subs) ==
    [jobTitle |-> title, startDate |-> "2020", endDate |-> endDate,
     details |-> [plainText |-> plain, subs |-> subs]]

Engagement(org, positions) ==
    [organisation |-> org, about_the_organisation |-> "About",
     location |-> "City", position |-> positions]

Entry(studyType, score) ==
    [studyType |-> studyType, area |-> "Maths", institution |-> "Uni",
     location |-> "Town", score |-> score]

OnePosition == Position("Dev", NA, StrVal("did things"), <<>>)
OneEngagement == Engagement("Org", <<OnePosition>>)
OneEntry == Entry("BSc", "3.9")

\* The record of the all-sentinel scenario
AllNARecord ==
    Record([name |-> NA], NAContact, NAOverview, <<>>, <<>>, <<>>, NoSections)

SmallRecord ==
    Record([name |-> "Ann"], [NAContact EXCEPT !.phone = "p"],
           [NAOverview EXCEPT !.desired_role = "Dev"],
           <<OneEngagement>>, <<OneEntry>>, <<[name |-> "s01"]>>, NoSections)

FullRecord ==
    Record([name |-> "Ann"],
           [phone |-> "p", email |-> "e", website |-> "w",
            location |-> [city |-> "c", countryCode |-> "k"]],
           [desired_role |-> "Dev", tagline |-> "Tag", subs |-> <<>>],
           <<OneEngagement>>, <<OneEntry>>,
           <<[name |-> "s01"], [name |-> "s02"]>>, NoSections)

\* a record in which only the keys of P are present
WithPresent(r, P) ==
    [r EXCEPT !.present = P,
              !.personalInformation =
                  IF "personalInformation" \in P THEN @ ELSE EmptyPersonal,
              !.contactDetails = IF "contactDetails" \in P THEN @ ELSE EmptyContact,
              !.overview = IF "overview" \in P THEN @ ELSE EmptyOverview,
              !.workExperience = IF "workExperience" \in P THEN @ ELSE <<>>,
              !.education = IF "education" \in P THEN @ ELSE <<>>,
              !.skills = IF "skills" \in P THEN @ ELSE <<>>]

ContactInputs ==
    {[AllNARecord EXCEPT
        !.personalInformation = [name |-> n],
        !.contactDetails = [phone |-> ph, email |-> em, website |-> w,
                            location |-> [city |-> c, countryCode |-> k]]] :
     n \in {NA, "Ann"}, ph \in {Absent, NA, "", "p"}, em \in {NA, "", "e"},
     w \in {NA, "w"}, c \in {Absent, NA, "c"}, k \in {Absent, NA, "k"}}

MissingInputs ==
    {WithPresent(SmallRecord, P) : P \in SUBSET Required}
    \cup {WithPresent(AllNARecord, P) : P \in SUBSET Required}

TextValues == {Absent, NA, "", Ctl, "x"}

TextInputs ==
    {[AllNARecord EXCEPT
        !.personalInformation = [name |-> n],
        !.overview = [desired_role |-> r, tagline |-> t, subs |-> <<>>]] :
     n \in TextValues, r \in TextValues, t \in TextValues}

SubKeys == {"Professional Overview", "Career Highlights"}

StringLists == {ListVal(q) : q \in SeqsUpTo({NA, "a", "b"}, MaxItems)}

SubValues == StringLists \cup {StrVal("text"), StrVal(NA)}

\* ordered mappings from distinct keys to values
SubMappings(values) ==
    {<<>>}
    \cup {<<[k |-> k1, v |-> v1]>> : k1 \in SubKeys, v1 \in values}
    \cup UNION {{<<[k |-> k1, v |-> v1], [k |-> k2, v |-> v2]>> :
                    k2 \in SubKeys \ {k1}, v1 \in values, v2 \in values} :
                k1 \in SubKeys}

OverviewInputs ==
    {[AllNARecord EXCEPT !.overview.subs = m, !.workExperience = we] :
     m \in SubMappings(SubValues), we \in {<<>>, <<Engagement("Org", <<>>)>>}}

DetailLists == {ListVal(q) : q \in SeqsUpTo({NA, "a"}, MaxItems)}

PlainValues == {NoVal, StrVal(NA), StrVal("did things"), StrVal(""),
                ListVal(<<>>), ListVal(<<"one", NA>>)}

Positions ==
    {Position(title, endDate, plain, subs) :
     title \in {Absent, "Dev"}, endDate \in {Absent, NA, "2021"},
     plain \in PlainValues,
     subs \in {<<>>} \cup {<<[k |-> "Key Contributions", v |-> v1]>> : v1 \in DetailLists}}

WorkInputs ==
    {[AllNARecord EXCEPT !.workExperience = <<Engagement(org, ps)>>] :
     org \in {Absent, "Org"}, ps \in {<<>>} \cup {<<pos>> : pos \in Positions}}
    \cup {[AllNARecord EXCEPT !.workExperience = we] :
          we \in {<<OneEngagement, Engagement("Org2", <<OnePosition, OnePosition>>)>>,
                  <<Engagement("Org", <<Position("Dev", "2021", NoVal,
                        <<[k |-> "Key Contributions", v |-> ListVal(<<NA>>)],
                          [k |-> "Tools", v |-> ListVal(<<"a">>)]>>),
                      Position("Lead", NA, NoVal,
                        <<[k |-> "Key Contributions", v |-> ListVal(<<"a">>)]>>)>>)>>}}

EducationInputs ==
    {[AllNARecord EXCEPT !.education = ed] :
     ed \in SeqsUpTo({Entry(st, sc) : st \in {Absent, "BSc"},
                                     sc \in {Absent, NA, "3.9"}}, 2)}

SkillNames == <<"s01", "s02", "s03", "s04", "s05", "s06", "s07", "s08",
                "s09", "s10", "s11", "s12", "s13", "s14", "s15", "s16">>

SkillsInputs ==
    {[AllNARecord EXCEPT !.skills = [i \in 1..n |-> [name |-> SkillNames[i]]]] :
     n \in 0..MaxSkills}
    \cup {[AllNARecord EXCEPT !.skills = [i \in 1..Len(q) |-> [name |-> q[i]]]] :
          q \in SeqsUpTo({Absent, NA, "", " ", "s", Ctl}, 3)}

Items == {StrItem(NA), StrItem("a"), DictItem("n", "sum"), DictItem("n", Absent),
          DictItem(Absent, Absent)}

SectionValues ==
    {ListVal(q) : q \in SeqsUpTo(Items, MaxItems)}
    \cup {StrVal("text"), StrVal(NA), StrVal("")}

SectionInputs ==
    {[AllNARecord EXCEPT !.sections[s] = v, !.sections["languages"] = l,
                         !.workExperience = we] :
     s \in Range(GenericSections) \ {"languages"}, v \in SectionValues,
     l \in {NoVal, ListVal(<<StrItem("en")>>)},
     we \in {<<>>, <<Engagement("Org", <<>>)>>}}

\* Records with every section populated
Shapes == <<ListVal(<<StrItem("a"), StrItem("b")>>),
            ListVal(<<DictItem("n", "sum")>>), StrVal("text")>>

PopulatedInputs ==
    {[FullRecord EXCEPT
        !.overview.subs = m,
        !.workExperience = we,
        !.sections = [s \in Range(GenericSections) |->
                        LET k == CHOOSE i \in 1..Len(GenericSections) :
                                    GenericSections[i] = s
                        IN Shapes[((k + off) % 3) + 1]]] :
     m \in SubMappings({ListVal(<<"a">>), ListVal(<<"a", "b">>)}) \ {<<>>},
     we \in {<<OneEngagement>>, <<OneEngagement, OneEngagement>>},
     off \in 0..2}

Inputs ==
    ContactInputs \cup MissingInputs \cup TextInputs \cup OverviewInputs
    \cup WorkInputs \cup EducationInputs \cup SkillsInputs \cup SectionInputs
    \cup PopulatedInputs
    \cup {[AllNARecord EXCEPT !.kind = "list"], [AllNARecord EXCEPT !.kind = "malformed"]}

-----------------------------------------------------------------------------
(* generate_cv as a state machine *)

Init ==
    /\ \/ is_json = TRUE /\ data \in Inputs
       \/ is_json = FALSE /\ data = AllNARecord
    /\ pc = "start"
    /\ doc = <<>>
    /\ geometry = FALSE
    /\ exc = "none"
    /\ status = 0
    /\ sent = <<>>
    /\ saved = FALSE
    /\ sep_i = 0
    /\ sep_n = 0
    /\ color = ColorStr(Black)
    /\ validated = <<>>

\* The calls of ops, then on to pc next, or to the except clauses
Build(ops, next) ==
    LET r == Emit(doc, ops)
    IN /\ doc' = r.doc
       /\ exc' = r.exc
       /\ pc' = IF r.exc = "none" THEN next ELSE "except"

\* if not request.is_json: return 400; request.json raises BadRequest for a
\* body that is no JSON
ParseRequest ==
    /\ pc = "start"
    /\ IF ~is_json THEN pc' = "done" /\ status' = 400 /\ exc' = exc
       ELSE IF data.kind = "malformed"
       THEN pc' = "except" /\ status' = status /\ exc' = "BadRequest"
       ELSE pc' = "create" /\ status' = status /\ exc' = exc
    /\ UNCHANGED <<is_json, data, doc, geometry, sent, saved, sep_i, sep_n,
                   color, validated>>

\* doc = Document() and the page geometry
CreateDocument ==
    /\ pc = "create"
    /\ doc' = <<>>
    /\ geometry' = TRUE
    /\ pc' = "header"
    /\ UNCHANGED <<is_json, data, exc, status, sent, saved, sep_i, sep_n,
                   color, validated>>

Rest == <<is_json, data, geometry, status, sent, saved, sep_i, sep_n, color,
          validated>>

\* data.get(...) on a payload that is no dict raises AttributeError
Header ==
    /\ pc = "header"
    /\ IF data.kind # "dict"
       THEN doc' = doc /\ exc' = "AttributeError" /\ pc' = "except"
       ELSE Build(NameOps(data), "contact")
    /\ UNCHANGED Rest

ContactLine == pc = "contact" /\ Build(ContactOps(data), "overview") /\ UNCHANGED Rest

OverviewBlock ==
    pc = "overview" /\ Build(OverviewBlockOps(data), "header_line") /\ UNCHANGED Rest

HeaderLine ==
    pc = "header_line" /\ Build(HeaderLineOps(data), "overview_sections")
    /\ UNCHANGED Rest

OverviewSections ==
    pc = "overview_sections" /\ Build(OverviewSectionOps(data), "work")
    /\ UNCHANGED Rest

WorkExperience ==
    pc = "work" /\ Build(WorkExperienceOps(data), "education") /\ UNCHANGED Rest

Education == pc = "education" /\ Build(EducationOps(data), "skills") /\ UNCHANGED Rest

Skills == pc = "skills" /\ Build(SkillsOps(data), "other") /\ UNCHANGED Rest

OtherSections ==
    pc = "other" /\ Build(OtherSectionsOps(data), "separator") /\ UNCHANGED Rest

\* for i in range(len(doc.paragraphs) - 1): the range is evaluated once
SeparatorStart ==
    /\ pc = "separator"
    /\ sep_n' = SeparatorRange(doc)
    /\ sep_i' = 0
    /\ pc' = "separator_loop"
    /\ UNCHANGED <<is_json, data, doc, geometry, exc, status, sent, saved,
                   color, validated>>

\* one iteration: doc.paragraphs is read again, then add_line is called for
\* a section heading
SeparatorStep ==
    /\ pc = "separator_loop"
    /\ sep_i < sep_n
    /\ Build(IF Paragraphs(doc)[sep_i + 1].style = "Heading 2"
             THEN <<add_line(Sec("separator", "", sep_i + 1, 0))>>
             ELSE <<>>, "separator_loop")
    /\ sep_i' = sep_i + 1
    /\ UNCHANGED <<is_json, data, geometry, status, sent, saved, sep_n, color,
                   validated>>

\* doc.save and send_file, when the loop is over
SaveAndSend ==
    /\ pc = "separator_loop"
    /\ sep_i >= sep_n
    /\ saved' = TRUE
    /\ sent' = doc
    /\ status' = 200
    /\ pc' = "done"
    /\ UNCHANGED <<is_json, data, doc, geometry, exc, sep_i, sep_n, color,
                   validated>>

\* the except clauses
ErrorStatus(e) ==
    CASE e = "KeyError" -> 400
      [] e = "ValueError" -> 400
      [] OTHER -> 500

HandleException ==
    /\ pc = "except"
    /\ status' = ErrorStatus(exc)
    /\ pc' = "done"
    /\ UNCHANGED <<is_json, data, doc, geometry, exc, sent, saved, sep_i,
                   sep_n, color, validated>>

Next ==
    \/ ParseRequest
    \/ CreateDocument
    \/ Header
    \/ ContactLine
    \/ OverviewBlock
    \/ HeaderLine
    \/ OverviewSections
    \/ WorkExperience
    \/ Education
    \/ Skills
    \/ OtherSections
    \/ SeparatorStart
    \/ SeparatorStep
    \/ SaveAndSend
    \/ HandleException

Spec == Init /\ [][Next]_vars

-----------------------------------------------------------------------------
(* validate_color applied to colour strings *)

ColorAlphabet == {"#", " ", "f", "0", "x", "g", "+", "_"}

ColorInputs ==
    {ColorStr(q) : q \in SeqsUpTo(ColorAlphabet, MaxColorLen)}
    \cup {ColorStr(<<"#", "1", "2", "a", "B", "c", "F">>),
          ColorStr(<<"1", "2", "a", "B", "c", "F">>),
          ColorStr(<<"#", "#", "1", "2", "a", "B", "c", "F">>),
          ColorStr(<<"1", "2", "a", "B", "c", "g">>),
          ColorStr(<<"0", "x", "1", "2", "3", "4">>),
          ColorStr(<<"1", "2", "3", "4", "5">>),
          ColorStr(<<"1", "2", "3", "4", "5", "6", "7">>),
          ColorNone}

InitColor ==
    /\ color \in ColorInputs
    /\ validated = <<>>
    /\ pc = "color"
    /\ is_json = FALSE
    /\ data = AllNARecord
    /\ doc = <<>>
    /\ geometry = FALSE
    /\ exc = "none"
    /\ status = 0
    /\ sent = <<>>
    /\ saved = FALSE
    /\ sep_i = 0
    /\ sep_n = 0

ValidateColor ==
    /\ pc = "color"
    /\ validated' = validate_color(color)
    /\ pc' = "color_done"
    /\ UNCHANGED <<is_json, data, doc, geometry, exc, status, sent, saved,
                   sep_i, sep_n, color>>

NextColor == ValidateColor

SpecColor == InitColor /\ [][NextColor]_vars

-----------------------------------------------------------------------------
(* Properties *)

Accepted == is_json /\ data.kind = "dict"

Count(q, x) == Cardinality({i \in 1..Len(q) : q[i] = x})

\* every text of a document: paragraph texts and cell texts
Texts(d) ==
    {d[i].text : i \in 1..Len(d)}
    \cup UNION {UNION {{<<d[i].cols[c][j]>> : j \in 1..Len(d[i].cols[c])} :
                           c \in 1..Len(d[i].cols)} : i \in 1..Len(d)}

\* C1: a record that lacks a required top-level field gets a 400 response
\* and no document is saved or sent.
C1_MissingRequiredRejected ==
    (Accepted /\ Required \ data.present # {})
        => /\ ~saved
           /\ sent = <<>>
           /\ (pc = "done" => status = 400)

\* C2: no text emitted into the document holds the sentinel "N/A".
C2_NoSentinelText == \A text \in Texts(doc) : NA \notin Range(text)

\* a value that is rendered as it stands
ValidText(s) == s \notin {Absent, NA, "", " ", "  ", Ctl}

ValidStrings(v) ==
    v.t = "list" /\ v.items # <<>> /\ \A j \in 1..Len(v.items) : ValidText(v.items[j])

ValidSection(v) ==
    \/ v.t = "str" /\ ValidText(v.s)
    \/ /\ v.t = "list" /\ v.items # <<>>
       /\ \A j \in 1..Len(v.items) :
            \/ v.items[j].t = "str" /\ ValidText(v.items[j].s)
            \/ v.items[j].t = "dict" /\ ValidText(v.items[j].name)

ValidPosition(pos) ==
    /\ ValidText(pos.jobTitle) /\ ValidText(pos.startDate)
    /\ \/ pos.details.plainText.t = "str" /\ ValidText(pos.details.plainText.s)
       \/ ValidStrings(pos.details.plainText)
    /\ \A i \in 1..Len(pos.details.subs) : ValidStrings(pos.details.subs[i].v)

\* every section of the record is there, with no sentinel and no text the
\* document library refuses
Populated(d) ==
    /\ d.kind = "dict" /\ d.present = Required
    /\ ValidText(d.personalInformation.name)
    /\ \A f \in {"phone", "email", "website"} : d.contactDetails[f] \notin {"", Ctl}
    /\ ValidText(d.overview.desired_role) /\ ValidText(d.overview.tagline)
    /\ d.overview.subs # <<>>
    /\ \A i \in 1..Len(d.overview.subs) : ValidStrings(d.overview.subs[i].v)
    /\ d.workExperience # <<>>
    /\ \A e \in 1..Len(d.workExperience) :
          /\ d.workExperience[e].position # <<>>
          /\ \A p \in 1..Len(d.workExperience[e].position) :
                ValidPosition(d.workExperience[e].position[p])
    /\ d.education # <<>>
    /\ d.skills # <<>>
    /\ \A i \in 1..Len(d.skills) : ValidText(d.skills[i].name)
    /\ \A s \in DOMAIN d.sections : ValidSection(d.sections[s])

\* the texts of the section headings of a document, in order
Headings(d) ==
    LET hs == SelectSeq(d, LAMBDA b : b.kind = "p" /\ b.style = "Heading 2")
    IN [i \in 1..Len(hs) |-> hs[i].text]

ExpectedHeadings(d) ==
    [i \in 1..Len(d.overview.subs) |-> <<d.overview.subs[i].k>>]
    \o << <<"Career Experience">>, <<"Education">>, <<"Key Skills & Expertise">>,
          <<"Associations">>, <<"Publications">>, <<"Projects">>, <<"Volunteer">>,
          <<"Interests">>, <<"Patents">>, <<"Awards">>, <<"Certificates">>,
          <<"Languages">>, <<"References">> >>

\* C3: for a fully populated record the document is produced and its section
\* headings are, in this order and once each: the overview subsections in
\* the record's key order, Career Experience, Education, Skills, the nine
\* generic sections in their fixed order, References.
C3_HeadingOrder ==
    (pc = "done" /\ is_json /\ Populated(data))
        => status = 200 /\ Headings(sent) = ExpectedHeadings(data)

\* the names of the skills from index a (counted from 0) up to b
SkillNamesOf(d, a, b) ==
    [i \in 1..(b - a) |-> d.skills[a + i].name]

\* C4: the three columns of the skills table hold the slices
\* [0, n/3), [n/3, 2n/3) and [2n/3, n) of the skill names.
C4_SkillsThirds ==
    (Accepted /\ \A i \in 1..Len(data.skills) : ValidText(data.skills[i].name))
        => LET n == Len(data.skills)
           IN \A i \in 1..Len(doc) :
                doc[i].kind = "tbl"
                    => doc[i].cols = <<SkillNamesOf(data, 0, n \div 3),
                                       SkillNamesOf(data, n \div 3, (2 * n) \div 3),
                                       SkillNamesOf(data, (2 * n) \div 3, n)>>

\* the texts of the contact lines of the document
ContactLines ==
    {doc[i].text : i \in {j \in 1..Len(doc) : doc[j].sec.part = "contact"}}

\* the contact part of the handler has run and raised nothing
ContactLineAdded == Accepted /\ pc \in {"overview", "header_line"}

Sentinel(v) == Get(v, NA) = NA

ContactFields(d) ==
    LET cd == DataGet(d, "contactDetails", EmptyContact)
    IN [phone |-> cd.phone, email |-> cd.email, website |-> cd.website,
        city |-> cd.location.city, countryCode |-> cd.location.countryCode]

\* C5 as stated: in the contact line every sentinel field is absent and every
\* non-sentinel field present, the separators number one less than the
\* non-sentinel fields, and there is no line when all are sentinel.
C5_EveryFieldItsToken ==
    ContactLineAdded
        => LET f == ContactFields(data)
               given == {k \in DOMAIN f : ~Sentinel(f[k])}
           IN IF given = {} THEN ContactLines = {}
              ELSE \E line \in ContactLines :
                     /\ ContactLines = {line}
                     /\ NA \notin Range(line) /\ Absent \notin Range(line)
                     /\ \A k \in given : f[k] \in Range(line)
                     /\ Count(line, " | ") = Cardinality(given) - 1

\* the contact parts of the record: phone, email, website, and the location,
\* which is a part only when city and countryCode are both given
ContactParts(d) ==
    LET f == ContactFields(d)
    IN {k \in {"phone", "email", "website"} : ~Sentinel(f[k])}
       \cup (IF ~Sentinel(f.city) /\ ~Sentinel(f.countryCode)
             THEN {"location"} ELSE {})

\* the contact line would be the empty string
EmptyContactLine(d) ==
    /\ Cardinality(ContactParts(d)) = 1
    /\ \E k \in ContactParts(d) : k # "location" /\ ContactFields(d)[k] = ""

\* C5, amended: the parts of the contact line are phone, email, website and
\* the location "city, countryCode"; a part is in the line iff it is given
\* (the location iff both of its fields are), the separators number one less
\* than the parts, there is no line when there is no part, and when the only
\* part is the empty string the handler raises on the line and the request
\* fails.
C5_ContactLine ==
    /\ ContactLineAdded
        => LET f == ContactFields(data)
               parts == ContactParts(data)
           IN IF parts = {} THEN ContactLines = {}
              ELSE \E line \in ContactLines :
                     /\ ContactLines = {line}
                     /\ NA \notin Range(line) /\ Absent \notin Range(line)
                     /\ \A k \in {"phone", "email", "website"} :
                            (k \in parts) <=> (~Sentinel(f[k]) /\ f[k] \in Range(line))
                     /\ IF "location" \in parts
                        THEN \E i \in 1..(Len(line) - 2) :
                                /\ line[i] = f.city
                                /\ line[i + 1] = ", "
                                /\ line[i + 2] = f.countryCode
                        ELSE /\ ", " \notin Range(line)
                             /\ \A k \in {"city", "countryCode"} :
                                    f[k] = "" \/ f[k] \notin Range(line)
                     /\ Count(line, " | ") = Cardinality(parts) - 1
    /\ (Accepted /\ EmptyContactLine(data))
        => /\ ~ContactLineAdded
           /\ pc = "done" => (status # 200 /\ sent = <<>>)
           /\ (pc = "done" /\ Name(data) \notin {"", Ctl}) => status = 500

C5_Witness ==
    /\ ContactLineAdded
    /\ ContactParts(data) = {"phone", "email"}
    /\ ContactFields(data).phone = ""
    /\ ~Sentinel(ContactFields(data).city)
    /\ Sentinel(ContactFields(data).countryCode)

\* a 3- or 6-digit hexadecimal colour, with or without one leading '#'
ValidColour(c) ==
    /\ c.t = "str"
    /\ LET digits == IF c.chars # <<>> /\ Head(c.chars) = "#"
                     THEN Tail(c.chars) ELSE c.chars
       IN /\ Len(digits) \in {3, 6}
          /\ \A i \in 1..Len(digits) : digits[i] \in HexDigit

SixDigits(c) ==
    LET digits == IF Head(c.chars) = "#" THEN Tail(c.chars) ELSE c.chars
    IN IF Len(digits) = 3
       THEN <<digits[1], digits[1], digits[2], digits[2], digits[3], digits[3]>>
       ELSE digits

\* C6: validate_color returns black for every input that is not a valid
\* colour, and '#' with six digits (3-digit forms doubled) for a valid one.
C6_ValidateColor ==
    pc = "color_done"
        => validated = IF ValidColour(color) THEN <<"#">> \o SixDigits(color)
                       ELSE Black

\* C7: a failure raised while the document is built or saved ends in a 500
\* response with no document; only a request that fails validation gets 400.
C7_BuildFailuresAre500 ==
    pc = "done"
        => /\ exc # "none" => status = 500 /\ sent = <<>>
           /\ status = 400 => ~is_json

\* a list whose first element is the sentinel
SentinelFirst(items) == items # <<>> /\ items[1] = NA

\* the parts of the record that are lists starting with the sentinel, as the
\* labels their blocks would carry
AbsentLists(d) ==
    {Part(s) : s \in {k \in DOMAIN d.sections :
                        /\ d.sections[k].t = "list"
                        /\ d.sections[k].items # <<>>
                        /\ d.sections[k].items[1] = StrItem(NA)}}
    \cup {Sec("overview", d.overview.subs[i].k, 0, 0) :
            i \in {j \in 1..Len(d.overview.subs) :
                     /\ d.overview.subs[j].v.t = "list"
                     /\ SentinelFirst(d.overview.subs[j].v.items)}}
    \cup UNION {UNION {{Sec("details", d.workExperience[e].position[p].details.subs[i].k, e, p) :
                          i \in {j \in 1..Len(d.workExperience[e].position[p].details.subs) :
                                   /\ d.workExperience[e].position[p].details.subs[j].v.t = "list"
                                   /\ SentinelFirst(d.workExperience[e].position[p].details.subs[j].v.items)}} :
                       p \in 1..Len(d.workExperience[e].position)} :
                e \in 1..Len(d.workExperience)}

\* C8: a list-valued section (generic, overview subsection, work-experience
\* detail subsection) that starts with the sentinel leaves nothing in the
\* document: no block of its own, hence no heading and no item, and the
\* separator pass calls add_line for no heading of it.
C8_SentinelFirstOmitted ==
    Accepted
        => \A i \in 1..Len(doc) :
              /\ doc[i].sec \notin AbsentLists(data)
              /\ doc[i].sec.part = "separator"
                    => Paragraphs(doc)[doc[i].sec.e].sec \notin AbsentLists(data)

\* all parts of the record have been rendered with a sentinel-first list
\* among them, of each of the three kinds
C8_Witness ==
    /\ Accepted /\ pc = "separator" /\ doc # <<>>
    /\ \/ /\ data.sections["references"] = ListVal(<<StrItem(NA), StrItem("a")>>)
          /\ data.sections["languages"].t = "list"
       \/ /\ Sec("overview", "Career Highlights", 0, 0) \in AbsentLists(data)
          /\ Len(data.overview.subs) = 2
       \/ /\ Sec("details", "Key Contributions", 1, 1) \in AbsentLists(data)
          /\ Len(data.workExperience[1].position[1].details.subs) = 2

\* C9: the all-sentinel record with empty lists yields a document that holds
\* nothing but the page geometry.
C9_AllSentinelEmptyDocument ==
    (pc = "done" /\ is_json /\ data = AllNARecord)
        => /\ status = 200 /\ saved /\ geometry
           /\ doc = <<>> /\ sent = <<>>

C9_Witness == pc = "done" /\ is_json /\ data = AllNARecord /\ exc = "none"

\* the paragraphs the separator pass found, and the lines it added
Content(d) == SelectSeq(Paragraphs(d), LAMBDA b : b.sec.part # "separator")
SeparatorLines(d) == SelectSeq(d, LAMBDA b : b.sec.part = "separator")

\* the positions among the first k paragraphs that hold a section heading
HeadingsUpTo(d, k) == {i \in 1..k : Content(d)[i].style = "Heading 2"}

\* the paragraphs the lines of the pass were added for
LinesFor(d) == {SeparatorLines(d)[i].sec.e : i \in 1..Len(SeparatorLines(d))}

\* C10: the separator pass ends having added one line for each section
\* heading among the paragraphs but the last that it found; the lines follow
\* all the content, none is scanned, and a heading that is the last paragraph
\* gets none.
C10_SeparatorPass ==
    /\ \A i \in 1..Len(doc) : \A j \in (i + 1)..Len(doc) :
            doc[i].sec.part = "separator" => doc[j].sec.part = "separator"
    /\ pc = "separator_loop"
        => /\ sep_i <= sep_n
           /\ sep_n = IF Content(doc) = <<>> THEN 0 ELSE Len(Content(doc)) - 1
           /\ LinesFor(doc) = HeadingsUpTo(doc, sep_i)
    /\ (pc = "done" /\ sep_n > 0)
        => /\ status = 200
           /\ sent = doc
           /\ LinesFor(sent) = HeadingsUpTo(sent, Len(Content(sent)) - 1)
           /\ Len(SeparatorLines(sent))
                = Cardinality(HeadingsUpTo(sent, Len(Content(sent)) - 1))
           /\ Len(Content(sent)) \notin LinesFor(sent)

====
